---- MODULE Spec2Model ----
(***************************************************************************)
(* Model of EnhancedLeadGenerationTool (src/main.py): the search /         *)
(* relevance / refinement loop of generate_leads_dataframe, the pure       *)
(* matching done by evaluate_relevance, the candidate selection and the    *)
(* per-candidate scrape + extract loop.                                    *)
(*                                                                         *)
(* Python dicts are records; a key that a dict lacks is a field the record *)
(* lacks (Has / Get below).  Confidences are in tenths (0.5 is 5).         *)
(* search_results, evaluated_results and relevant_results hold a value     *)
(* while the code can still read it and are empty otherwise.               *)
(***************************************************************************)
EXTENDS Integers, Sequences, FiniteSets, TLC

VARIABLES
    pc,                 \* position in generate_leads_dataframe
    search_query,       \* argument: the caller's query
    num_results,        \* argument: the target number of leads
    current_query,      \* local, main.py:365
    retry_count,        \* local, main.py:366
    search_results,     \* local, main.py:372
    evaluated_results,  \* local, main.py:379
    relevant_results,   \* local, main.py:382
    final_results,      \* local, main.py:399
    all_leads,          \* local, main.py:406
    cand,               \* number of candidates of final_results already processed
    output,             \* rows of the returned DataFrame
    calls,              \* per collaborator, the number of calls made so far
    serper_num,         \* the "num" of the last request sent to the search API
    scorer_queries,     \* queries handed to evaluate_relevance so far
    refiner_queries,    \* queries handed to refine_search_query so far
    last_searched,      \* query handed to the last search_companies call
    refiner_returned,   \* what the last refine_search_query call returned
    last_search_empty,  \* the last search call returned no result
    calls_at_empty,     \* value of calls right after the last search call that returned no result
    met_history,        \* per judged batch, in order: its relevance rate reached the threshold
    exit_kind,          \* how the while loop was left: "none", "empty", "sufficient",
                        \* "exhausted" or "condition"
    fetch_log,          \* outcome of scrape_website for each processed candidate
    eval_input,         \* the scorer's answer handed to the last evaluate_relevance call
    refiner_reply,      \* the refiner LLM's answer in the last refine_search_query call
    earlier_relevant,   \* some batch that was refined away held a relevant result
    twin_leads          \* all_leads of a second run of generate_leads_dataframe with the
                        \* same arguments, whose collaborators answer each call as in
                        \* this run, and which starts at a later time

vars == <<pc, search_query, num_results, current_query, retry_count,
          search_results, evaluated_results, relevant_results, final_results,
          all_leads, cand, output, calls, serper_num, scorer_queries,
          refiner_queries, last_searched, refiner_returned, last_search_empty,
          calls_at_empty, met_history, exit_kind, fetch_log, eval_input,
          refiner_reply, earlier_relevant, twin_leads>>

(***************************************************************************)
(* Bounds of the model and constants of the program.                       *)
(***************************************************************************)
MaxBatch == 5           \* longest list the search provider returns
MaxTarget == 2          \* largest num_results
MaxEvalLen == 3         \* longest result list given to evaluate_relevance on its own
MaxJudgments == 2       \* longest judgment array given to evaluate_relevance on its own

max_retries == 3
ThresholdTenths == 6    \* relevance_threshold = 0.6
FailOpenConfidence == 5 \* 0.5
DefaultConfidence == 0  \* 0.0

Min(a, b) == IF a <= b THEN a ELSE b

(***************************************************************************)
(* dict helpers                                                            *)
(***************************************************************************)
Has(d, k) == k \in DOMAIN d

Get(d, k, default) == IF k \in DOMAIN d THEN d[k] ELSE default

\* d with the keys of upd set (dict copy followed by item assignments)
Updated(d, upd) == upd @@ d

\* seq[:n]
Prefix(seq, n) == SubSeq(seq, 1, Min(n, Len(seq)))

(***************************************************************************)
(* search_companies (main.py:56-84)                                        *)
(***************************************************************************)
\* the "num" field of the request body, main.py:67
SerperNum(n) == n * 2

\* what search_companies returns for an outcome of the HTTP request:
\* the "organic" list of the response, or [] when the request raised
SearchReturn(reply) == IF reply.status = "ok" THEN reply.organic ELSE <<>>

(***************************************************************************)
(* evaluate_relevance (main.py:86-174)                                     *)
(*                                                                         *)
(* The scorer's answer is [status |-> "api_error"] (the completion call    *)
(* raised), [status |-> "unparsable"] (json.loads raised) or               *)
(* [status |-> "ok", data |-> array].  An element of the array is a        *)
(* judgment dict, or [nondict |-> TRUE] for a JSON value that is not an    *)
(* object, on which rel_data.get raises.                                   *)
(***************************************************************************)
IsDict(e) == ~Has(e, "nondict")

\* search_results.index(result): 0-based position of the first equal element
ListIndex(seq, x) == (CHOOSE i \in 1..Len(seq) :
                          /\ seq[i] = x
                          /\ \A j \in 1..(i - 1) : seq[j] # x) - 1

\* the index the matching loop compares the judgments with, for the result at
\* 1-based position p (main.py:146)
LookupIndex(results, p) == ListIndex(results, results[p])

\* main.py:144-148, scanning relevance_data from position k on:
\* [kind |-> "raise"], [kind |-> "none"] or [kind |-> "found", info |-> dict]
RECURSIVE FindJudgment(_, _, _)
FindJudgment(data, k, idx) ==
    IF k > Len(data) THEN [kind |-> "none"]
    ELSE IF ~IsDict(data[k]) THEN [kind |-> "raise"]
    ELSE IF Has(data[k], "index") /\ data[k].index = idx
         THEN [kind |-> "found", info |-> data[k]]
         ELSE FindJudgment(data, k + 1, idx)

\* main.py:150-157
EnhancedResult(result, found) ==
    IF found.kind = "found"
    THEN Updated(result,
           [is_relevant |-> Get(found.info, "is_relevant", FALSE),
            relevance_confidence |-> Get(found.info, "confidence", DefaultConfidence),
            relevance_reason |-> Get(found.info, "reason", "No reason provided")])
    ELSE Updated(result,
           [is_relevant |-> FALSE,
            relevance_confidence |-> DefaultConfidence,
            relevance_reason |-> "Could not evaluate relevance"])

\* main.py:170-174, the except branch
FailClosedResults(results) ==
    [p \in 1..Len(results) |->
        Updated(results[p], [is_relevant |-> FALSE,
                             relevance_confidence |-> DefaultConfidence,
                             relevance_reason |-> "Could not evaluate"])]

FailOpenResults(results) ==
    [p \in 1..Len(results) |->
        Updated(results[p], [is_relevant |-> TRUE,
                             relevance_confidence |-> FailOpenConfidence,
                             relevance_reason |-> "Could not evaluate"])]

\* the try block raises (main.py:121-168)
ScorerRaises(results, answer) ==
    \/ answer.status # "ok"
    \/ \E p \in 1..Len(results) :
          FindJudgment(answer.data, 1, LookupIndex(results, p)).kind = "raise"

evaluate_relevance(results, answer) ==
    IF ScorerRaises(results, answer)
    THEN FailOpenResults(results)
    ELSE [p \in 1..Len(results) |->
            EnhancedResult(results[p],
                           FindJudgment(answer.data, 1, LookupIndex(results, p)))]

(***************************************************************************)
(* refine_search_query (main.py:176-212)                                   *)
(***************************************************************************)
RefineKeepsQuery(original_query, reply) == original_query

\* reply is [status |-> "ok", text |-> the message content after strip()] or
\* [status |-> "api_error"]
refine_search_query(original_query, reply) ==
    IF reply.status = "ok" THEN reply.text
    ELSE original_query \o " company contact information"

(***************************************************************************)
(* generate_leads_dataframe, steps 3 and 4 (main.py:381-399)               *)
(***************************************************************************)
\* r.get("is_relevant", False)
IsRelevant(r) == Get(r, "is_relevant", FALSE)

\* main.py:382
RelevantOf(evaluated) == SelectSeq(evaluated, IsRelevant)

\* main.py:383 and 385: relevance_rate >= self.relevance_threshold, where the
\* rate is len(relevant)/len(evaluated), or 0 for an empty list.  The float
\* quotient and the literal 0.6 are both correctly rounded, so the comparison
\* agrees with the exact one (3/5 >= 0.6 is true in Python).
RateStrictlyAbove(nrel, ntotal) ==
    IF ntotal > 0 THEN nrel * 10 > ThresholdTenths * ntotal ELSE FALSE

RateSufficient(nrel, ntotal) ==
    IF ntotal > 0 THEN nrel * 10 >= ThresholdTenths * ntotal
    ELSE 0 >= ThresholdTenths

\* seq ordered by decreasing relevance_confidence, equal ones in their order
RECURSIVE SortedByConfidence(_)
SortedByConfidence(seq) ==
    IF seq = <<>> THEN <<>>
    ELSE LET r == Head(seq)
             rest == SortedByConfidence(Tail(seq))
             before == SelectSeq(rest, LAMBDA x :
                           x.relevance_confidence > r.relevance_confidence)
             after == SelectSeq(rest, LAMBDA x :
                           x.relevance_confidence <= r.relevance_confidence)
         IN  before \o <<r>> \o after

SelectFinalByConfidence(relevant, evaluated, n) ==
    IF Len(relevant) > 0 THEN Prefix(SortedByConfidence(relevant), n)
    ELSE Prefix(SortedByConfidence(evaluated), n)

SelectFinalNoFallback(relevant, evaluated, n) == Prefix(relevant, n)

SelectFinalUnjudged(relevant, evaluated, n) ==
    Prefix([i \in 1..Len(evaluated) |->
               [k \in DOMAIN evaluated[i]
                      \ {"is_relevant", "relevance_confidence", "relevance_reason"} |->
                   evaluated[i][k]]], n)

SelectFinalFilled(relevant, evaluated, n) ==
    Prefix(relevant \o SelectSeq(evaluated, LAMBDA r : ~IsRelevant(r)), n)

\* main.py:399
SelectFinal(relevant, evaluated, n) ==
    IF Len(relevant) > 0 THEN Prefix(relevant, n) ELSE Prefix(evaluated, n)


(***************************************************************************)
(* scrape_website (main.py:233-265) and extract_lead_info (main.py:267-356)*)
(***************************************************************************)
\* page is [status |-> "error"] (the driver raised) or [status |-> "ok",
\* text |-> cleaned text]; the return value is None or the text
scrape_website(page) ==
    IF page.status = "ok" THEN [is_none |-> FALSE, text |-> page.text]
    ELSE [is_none |-> TRUE, text |-> ""]

\* "if content:" (main.py:414)
ContentTruthy(content) == ~content.is_none /\ content.text # ""

ExtractedFields ==
    {"company_name", "email", "phone", "linkedin", "website", "industry",
     "description", "address", "contact_person", "services", "company_size",
     "founded_year", "revenue_range", "technologies", "social_media"}

\* main.py:325-356; the regexes find nothing in the page texts of the model
\* and the company name is derived from the URL
_create_fallback_lead_data(website_url, text) ==
    [f \in ExtractedFields |->
        CASE f = "company_name" -> "name from " \o website_url
          [] f = "website" -> website_url
          [] f = "description" -> text
          [] OTHER -> "N/A"]

\* reply is [status |-> "ok", json |-> dict] (the answer parsed),
\* [status |-> "unparsable"] or [status |-> "api_error"]
extract_lead_info(text, website_url, reply) ==
    IF reply.status = "ok" THEN reply.json
    ELSE _create_fallback_lead_data(website_url, text)

\* datetime.now() while candidate number k is processed, in seconds, in a run
\* started at time started: scrape_website sleeps 5 s and the loop 2 s per
\* candidate (main.py:246, 433)
ClockAt(started, k) == started + 7 * (k - 1) + 5

\* main.py:418-424; now is the value of datetime.now() (main.py:424)
WithMetadata(lead_data, result, now) ==
    Updated(lead_data,
        [search_title |-> result.title,
         search_snippet |-> Get(result, "snippet", ""),
         is_relevant |-> Get(result, "is_relevant", FALSE),
         relevance_confidence |-> Get(result, "relevance_confidence", DefaultConfidence),
         relevance_reason |-> Get(result, "relevance_reason", ""),
         scraped_at |-> now])

(***************************************************************************)
(* What the collaborators may answer                                       *)
(***************************************************************************)
Queries == {"SaaS companies in Denver"}

Hit(i, q) == [title |-> "Company " \o ToString(i),
              snippet |-> "result for " \o q,
              link |-> "https://site" \o ToString(i) \o ".example"]

PlainBatch(n, q) == [i \in 1..n |-> Hit(i, q)]

\* lists of results the search API may return for query q: n distinct
\* results, n results whose second one repeats the first, and n results
\* whose first one lacks its title or its link
Batches(q) ==
    UNION {   {PlainBatch(n, q)}
           \cup (IF n < 2 THEN {}
                 ELSE {[PlainBatch(n, q) EXCEPT ![2] = Hit(1, q)]})
           \cup (IF n = 0 THEN {}
                 ELSE {[PlainBatch(n, q) EXCEPT ![1] = [snippet |-> @.snippet, link |-> @.link]],
                       [PlainBatch(n, q) EXCEPT ![1] = [title |-> @.title, snippet |-> @.snippet]]})
           : n \in 0..MaxBatch}

SearchReplies(q) ==
    {[status |-> "error"]} \cup {[status |-> "ok", organic |-> b] : b \in Batches(q)}

\* the judgment array in which the scorer judges result i (1-based) as
\* v[i] says: "yes", "no", or "omit" for no judgment at all; the confidence
\* grows with the position
JudgmentArray(n, v) ==
    LET kept == SelectSeq([i \in 1..n |-> i], LAMBDA i : v[i] # "omit")
    IN  [k \in 1..Len(kept) |->
            [index |-> kept[k] - 1,
             is_relevant |-> (v[kept[k]] = "yes"),
             confidence |-> kept[k],
             reason |-> "judged"]]

ScorerAnswers(n) ==
    {[status |-> "api_error"], [status |-> "unparsable"],
     [status |-> "ok", data |-> <<[nondict |-> TRUE]>>]}
    \cup {[status |-> "ok", data |-> JudgmentArray(n, v)] :
             v \in [1..n -> {"yes", "no", "omit"}]}

RefinerReplies ==
    {[status |-> "api_error"],
     [status |-> "ok", text |-> "B2B SaaS vendors Denver Colorado"],
     [status |-> "ok", text |-> "Denver software startups"]}

Pages ==
    {[status |-> "error"],
     [status |-> "ok", text |-> ""],
     [status |-> "ok", text |-> "We build billing software."]}

FullLead == [f \in ExtractedFields |-> IF f = "company_name" THEN "Acme" ELSE "N/A"]

\* a JSON object that names two of the fields, one of them as null
PartialLead == [company_name |-> "Acme", email |-> "null"]

ExtractorReplies ==
    {[status |-> "api_error"], [status |-> "unparsable"],
     [status |-> "ok", json |-> FullLead],
     [status |-> "ok", json |-> PartialLead]}

(***************************************************************************)
(* generate_leads_dataframe (main.py:358-462)                              *)
(***************************************************************************)
NoCalls == [search |-> 0, scorer |-> 0, refiner |-> 0, fetcher |-> 0, extractor |-> 0]

NoAnswer == [status |-> "none"]

Init ==
    /\ pc = "loop"
    /\ search_query \in Queries
    /\ num_results \in 1..MaxTarget
    /\ current_query = search_query
    /\ retry_count = 0
    /\ search_results = <<>>
    /\ evaluated_results = <<>>
    /\ relevant_results = <<>>
    /\ final_results = <<>>
    /\ all_leads = <<>>
    /\ cand = 0
    /\ output = <<>>
    /\ calls = NoCalls
    /\ serper_num = 0
    /\ scorer_queries = {}
    /\ refiner_queries = {}
    /\ last_searched = ""
    /\ refiner_returned = ""
    /\ last_search_empty = FALSE
    /\ calls_at_empty = NoCalls
    /\ met_history = <<>>
    /\ exit_kind = "none"
    /\ fetch_log = <<>>
    /\ eval_input = NoAnswer
    /\ refiner_reply = NoAnswer
    /\ earlier_relevant = FALSE
    /\ twin_leads = <<>>

\* "while retry_count < self.max_retries:" (main.py:368)
WhileCondition(count) == count < max_retries

\* "if not search_results:" (main.py:374)
NoResultsNever(results) == FALSE

NoResults(results) == results = <<>>

\* the query argument of evaluate_relevance (main.py:379)
ScorerQueryCurrent(original, current) == current

ScorerQueryArg(original, current) == original

\* the query argument of refine_search_query (main.py:391)
RefinerQueryArg(original, current) == original

\* One pass through main.py:368-383: the while condition, the search call,
\* the return on an empty answer, the scorer call and the relevant subset.
LoopPass ==
    /\ pc = "loop"
    /\ IF ~WhileCondition(retry_count)
       THEN /\ pc' = "select"
            /\ exit_kind' = "condition"
            /\ UNCHANGED <<search_results, evaluated_results, relevant_results,
                           output, calls, serper_num, scorer_queries,
                           last_searched, last_search_empty, calls_at_empty,
                           met_history, eval_input>>
       ELSE \E reply \in SearchReplies(current_query) :
              LET results == SearchReturn(reply) IN
              /\ search_results' = results
              /\ serper_num' = SerperNum(num_results * 2)
              /\ last_searched' = current_query
              /\ last_search_empty' = (Len(results) = 0)
              /\ calls_at_empty' = IF Len(results) = 0
                                   THEN [calls EXCEPT !.search = @ + 1]
                                   ELSE calls_at_empty
              /\ IF NoResults(results)
                 THEN /\ calls' = [calls EXCEPT !.search = @ + 1]
                      /\ exit_kind' = "empty"
                      /\ output' = <<>>
                      /\ pc' = "done"
                      /\ UNCHANGED <<evaluated_results, relevant_results,
                                     scorer_queries, met_history, eval_input>>
                 ELSE /\ calls' = [calls EXCEPT !.search = @ + 1, !.scorer = @ + 1]
                      /\ \E answer \in ScorerAnswers(Len(results)) :
                           /\ eval_input' = answer
                           /\ evaluated_results' = evaluate_relevance(results, answer)
                      /\ relevant_results' = RelevantOf(evaluated_results')
                      /\ scorer_queries' = scorer_queries
                             \cup {ScorerQueryArg(search_query, current_query)}
                      /\ met_history' = Append(met_history,
                             /\ Len(evaluated_results') > 0
                             /\ 10 * Len(relevant_results') >= ThresholdTenths * Len(evaluated_results'))
                      /\ pc' = "check"
                      /\ UNCHANGED <<exit_kind, output>>
    /\ UNCHANGED <<search_query, num_results, current_query, retry_count,
                   final_results, all_leads, cand, refiner_queries,
                   refiner_returned, fetch_log,
                   refiner_reply, earlier_relevant, twin_leads>>

\* main.py:385-387
Sufficient ==
    /\ pc = "check"
    /\ RateSufficient(Len(relevant_results), Len(evaluated_results))
    /\ exit_kind' = "sufficient"
    /\ pc' = "select"
    /\ UNCHANGED <<search_query, num_results, current_query, retry_count,
                   search_results, evaluated_results, relevant_results,
                   final_results, all_leads, cand, output, calls, serper_num,
                   scorer_queries, refiner_queries, last_searched,
                   refiner_returned, last_search_empty, calls_at_empty,
                   met_history, fetch_log, eval_input,
                   refiner_reply, earlier_relevant, twin_leads>>

\* "if retry_count < self.max_retries - 1:" (main.py:390)
MayRetryShort(count) == count < max_retries - 2

MayRetry(count) == count < max_retries - 1

\* "retry_count += 1" (main.py:392)
RetryStuck(count) == count

NextRetry(count) == count + 1

\* main.py:388-393.  After "continue" the locals search_results,
\* evaluated_results and relevant_results are dead: the next pass rebinds
\* each of them before reading it (main.py:372, 379, 382) or returns
\* (main.py:376), so the model drops their values here, together with the
\* scorer's answer that produced them.
Refine ==
    /\ pc = "check"
    /\ ~RateSufficient(Len(relevant_results), Len(evaluated_results))
    /\ MayRetry(retry_count)
    /\ \E reply \in RefinerReplies :
         /\ current_query' = refine_search_query(
                                 RefinerQueryArg(search_query, current_query), reply)
         /\ refiner_returned' = current_query'
         /\ refiner_reply' = reply
    /\ earlier_relevant' = (earlier_relevant \/ Len(relevant_results) > 0)
    /\ refiner_queries' = refiner_queries
           \cup {RefinerQueryArg(search_query, current_query)}
    /\ calls' = [calls EXCEPT !.refiner = @ + 1]
    /\ retry_count' = NextRetry(retry_count)
    /\ search_results' = <<>>
    /\ evaluated_results' = <<>>
    /\ relevant_results' = <<>>
    /\ eval_input' = NoAnswer
    /\ pc' = "loop"
    /\ UNCHANGED <<search_query, num_results, final_results,
                   all_leads, cand, output, serper_num, scorer_queries,
                   last_searched, last_search_empty, calls_at_empty,
                   met_history, exit_kind, fetch_log,
                   twin_leads>>

\* main.py:394-396
Exhausted ==
    /\ pc = "check"
    /\ ~RateSufficient(Len(relevant_results), Len(evaluated_results))
    /\ ~MayRetry(retry_count)
    /\ exit_kind' = "exhausted"
    /\ pc' = "select"
    /\ UNCHANGED <<search_query, num_results, current_query, retry_count,
                   search_results, evaluated_results, relevant_results,
                   final_results, all_leads, cand, output, calls, serper_num,
                   scorer_queries, refiner_queries, last_searched,
                   refiner_returned, last_search_empty, calls_at_empty,
                   met_history, fetch_log, eval_input,
                   refiner_reply, earlier_relevant, twin_leads>>

\* main.py:398-406.  Nothing after main.py:399 reads search_results,
\* evaluated_results or relevant_results, so their values are dropped here as
\* they are in Refine.
Select ==
    /\ pc = "select"
    /\ final_results' = SelectFinal(relevant_results, evaluated_results, num_results)
    /\ IF final_results' = <<>>
       THEN pc' = "done"
       ELSE pc' = "process"
    /\ search_results' = <<>>
    /\ evaluated_results' = <<>>
    /\ relevant_results' = <<>>
    /\ eval_input' = NoAnswer
    /\ UNCHANGED <<search_query, num_results, current_query, retry_count,
                   all_leads, cand, output, calls, serper_num,
                   scorer_queries, refiner_queries, last_searched,
                   refiner_returned, last_search_empty, calls_at_empty,
                   met_history, exit_kind, fetch_log,
                   refiner_reply, earlier_relevant, twin_leads>>

\* One iteration of the loop of main.py:408-433.  result['title'] and
\* result['link'] raise KeyError on a result that lacks the key, and nothing
\* in generate_leads_dataframe catches it.
ProcessCandidate ==
    /\ pc = "process"
    /\ cand < Len(final_results)
    /\ LET result == final_results[cand + 1] IN
       IF ~Has(result, "title") \/ ~Has(result, "link")
       THEN /\ pc' = "raised"
            /\ UNCHANGED <<all_leads, twin_leads, cand, calls, fetch_log>>
       ELSE \E page \in Pages :
              LET content == scrape_website(page) IN
              /\ fetch_log' = Append(fetch_log,
                                 IF content.is_none THEN "none"
                                 ELSE IF content.text = "" THEN "blank" ELSE "text")
              /\ IF ContentTruthy(content)
                 THEN /\ \E reply \in ExtractorReplies :
                           LET lead_data == extract_lead_info(content.text, result.link, reply)
                           IN  /\ all_leads' = Append(all_leads,
                                      WithMetadata(lead_data, result, ClockAt(0, cand + 1)))
                               /\ twin_leads' = Append(twin_leads,
                                      WithMetadata(lead_data, result, ClockAt(1, cand + 1)))
                      /\ calls' = [calls EXCEPT !.fetcher = @ + 1, !.extractor = @ + 1]
                 ELSE /\ all_leads' = all_leads
                      /\ twin_leads' = twin_leads
                      /\ calls' = [calls EXCEPT !.fetcher = @ + 1]
              /\ cand' = cand + 1
              /\ pc' = "process"
    /\ UNCHANGED <<search_query, num_results, current_query, retry_count,
                   search_results, evaluated_results, relevant_results,
                   final_results, output, serper_num, scorer_queries,
                   refiner_queries, last_searched, refiner_returned,
                   last_search_empty, calls_at_empty, met_history,
                   exit_kind, eval_input,
                   refiner_reply, earlier_relevant>>

\* column_order, main.py:440-446
ColumnOrder ==
    ExtractedFields \cup {"is_relevant", "relevance_confidence", "relevance_reason",
                          "search_title", "search_snippet", "scraped_at"}

\* main.py:437-450: pd.DataFrame(leads) has one column per key that some lead
\* has and the cell "NaN" where a lead lacks the key; the columns kept are
\* those of column_order.  No row when there is no lead (main.py:460-462).
DataFrameRows(leads) ==
    LET columns == UNION {DOMAIN leads[i] : i \in 1..Len(leads)} \cap ColumnOrder
    IN  [i \in 1..Len(leads) |->
            [c \in columns |-> IF Has(leads[i], c) THEN leads[i][c] ELSE "NaN"]]

\* main.py:435-462
Finish ==
    /\ pc = "process"
    /\ cand = Len(final_results)
    /\ output' = DataFrameRows(all_leads)
    /\ pc' = "done"
    /\ UNCHANGED <<search_query, num_results, current_query, retry_count,
                   search_results, evaluated_results, relevant_results,
                   final_results, all_leads, cand, calls, serper_num,
                   scorer_queries, refiner_queries, last_searched,
                   refiner_returned, last_search_empty, calls_at_empty,
                   met_history, exit_kind, fetch_log, eval_input,
                   refiner_reply, earlier_relevant, twin_leads>>

Next ==
    \/ LoopPass
    \/ Sufficient
    \/ Refine
    \/ Exhausted
    \/ Select
    \/ ProcessCandidate
    \/ Finish

Spec == Init /\ [][Next]_vars

(***************************************************************************)
(* evaluate_relevance on its own: any short list of results, with or       *)
(* without equal results, and any short judgment array.                    *)
(***************************************************************************)
EvalResultLists ==
    UNION {[1..n -> {Hit(1, "q"), Hit(2, "q")}] : n \in 0..MaxEvalLen}

JudgmentElems ==
    {[index |-> i, is_relevant |-> b, confidence |-> 9, reason |-> "judged"] :
        i \in 0..MaxEvalLen, b \in BOOLEAN}
    \cup {[index |-> i] : i \in 0..MaxEvalLen}
    \cup {[is_relevant |-> TRUE, confidence |-> 9], [nondict |-> TRUE]}

EvalAnswers ==
    {[status |-> "api_error"], [status |-> "unparsable"]}
    \cup {[status |-> "ok", data |-> d] :
             d \in UNION {[1..n -> JudgmentElems] : n \in 0..MaxJudgments}}

EvalInit ==
    /\ pc = "eval"
    /\ search_query \in Queries
    /\ num_results = 1
    /\ current_query = search_query
    /\ retry_count = 0
    /\ search_results \in EvalResultLists
    /\ evaluated_results = <<>>
    /\ relevant_results = <<>>
    /\ final_results = <<>>
    /\ all_leads = <<>>
    /\ cand = 0
    /\ output = <<>>
    /\ calls = NoCalls
    /\ serper_num = 0
    /\ scorer_queries = {}
    /\ refiner_queries = {}
    /\ last_searched = ""
    /\ refiner_returned = ""
    /\ last_search_empty = FALSE
    /\ calls_at_empty = NoCalls
    /\ met_history = <<>>
    /\ exit_kind = "none"
    /\ fetch_log = <<>>
    /\ eval_input \in EvalAnswers
    /\ refiner_reply = NoAnswer
    /\ earlier_relevant = FALSE
    /\ twin_leads = <<>>

\* one call of evaluate_relevance(search_results, search_query)
Evaluate ==
    /\ pc = "eval"
    /\ evaluated_results' = evaluate_relevance(search_results, eval_input)
    /\ calls' = [calls EXCEPT !.scorer = @ + 1]
    /\ pc' = "evaluated"
    /\ UNCHANGED <<search_query, num_results, current_query, retry_count,
                   search_results, relevant_results, final_results, all_leads,
                   cand, output, serper_num, scorer_queries, refiner_queries,
                   last_searched, refiner_returned, last_search_empty,
                   calls_at_empty, met_history, exit_kind, fetch_log, eval_input,
                   refiner_reply, earlier_relevant, twin_leads>>

EvalNext == Evaluate

EvalSpec == EvalInit /\ [][EvalNext]_vars

TypeOK ==
    /\ pc \in {"loop", "check", "select", "process", "done", "raised", "eval", "evaluated"}
    /\ retry_count \in 0..(max_retries - 1)
    /\ cand \in 0..Len(final_results)
    /\ exit_kind # "condition"

(***************************************************************************)
(* Properties                                                              *)
(***************************************************************************)
\* the search result a judged result was made from
Underlying(r) ==
    [k \in DOMAIN r \ {"is_relevant", "relevance_confidence", "relevance_reason"} |-> r[k]]

\* positions of the judged-relevant results of a batch
RelevantPositions(batch) == {i \in 1..Len(batch) : batch[i].is_relevant}

\* every element of seq is an element of batch
DrawnFrom(seq, batch) ==
    \A i \in 1..Len(seq) : \E j \in 1..Len(batch) : seq[i] = batch[j]

\* batch is the judged form of the results of the last search call
JudgedFromLastSearch(batch) ==
    /\ Len(batch) = Len(search_results)
    /\ \A j \in 1..Len(batch) : Underlying(batch[j]) = search_results[j]

AfterLoop == pc \in {"select", "process", "done", "raised"}

AfterSelect == pc \in {"process", "done", "raised"}

\* upper bound on the number of steps a run still takes
Variant ==
    CASE pc = "loop" -> 2 * (max_retries - retry_count) + num_results + 3
      [] pc = "check" -> 2 * (max_retries - retry_count) + num_results + 2
      [] pc = "select" -> num_results + 2
      [] pc = "process" -> Len(final_results) - cand + 1
      [] OTHER -> 0

\* C1: every run of generate_leads_dataframe terminates (each step lowers a
\* natural-number bound on the steps that remain), and the search provider
\* and the relevance scorer are each called at most max_retries times.
C1_BoundedRun ==
    [][ /\ Variant' < Variant
        /\ Variant' >= 0
        /\ calls'.search <= max_retries
        /\ calls'.scorer <= max_retries ]_vars

C1_Witness ==
    /\ pc = "done"
    /\ calls.search = max_retries
    /\ calls.scorer = max_retries

\* the batch judged at attempt k is the first whose rate reached the threshold
FirstMet(k) ==
    /\ met_history[k]
    /\ \A j \in 1..(k - 1) : ~met_history[j]

\* the batch in evaluated_results is the judged form of the last search
\* answer and its relevance rate is at least 0.6
BatchAtThreshold ==
    /\ JudgedFromLastSearch(evaluated_results)
    /\ evaluated_results # <<>>
    /\ 10 * Cardinality(RelevantPositions(evaluated_results))
            >= 6 * Len(evaluated_results)

C2_State ==
    \A k \in 1..Len(met_history) :
        FirstMet(k) =>
            /\ Len(met_history) = k
            /\ calls.search = k
            /\ calls.scorer = k
            /\ calls.refiner = k - 1
            /\ pc # "loop"
            /\ IF pc = "check" THEN exit_kind = "none" ELSE exit_kind = "sufficient"
            /\ pc \in {"check", "select"} => BatchAtThreshold
            /\ AfterSelect => final_results # <<>>

\* C2: when the batch judged at attempt k is the first whose relevance rate is
\* at or above the threshold, the loop is left at that attempt after exactly
\* k searches, k scorer calls and k-1 refinements, and the final candidates
\* are taken from that batch.
C2_AcceptAtFirstSufficient ==
    [][ /\ C2_State'
        /\ (pc = "select" /\ exit_kind = "sufficient") =>
               /\ BatchAtThreshold
               /\ final_results' # <<>>
               /\ DrawnFrom(final_results', evaluated_results)
        /\ AfterSelect => final_results' = final_results ]_vars

C2_Witness ==
    /\ pc = "select"
    /\ exit_kind = "sufficient"
    /\ Len(met_history) = 2
    /\ calls.refiner = 1
    /\ Len(evaluated_results) = 5
    /\ Cardinality(RelevantPositions(evaluated_results)) = 3

C3_State ==
    ( /\ AfterLoop
      /\ exit_kind # "empty"
      /\ \A k \in 1..Len(met_history) : ~met_history[k] )
    =>
        /\ Len(met_history) = max_retries
        /\ calls.search = max_retries
        /\ calls.scorer = max_retries
        /\ calls.refiner = max_retries - 1
        /\ exit_kind = "exhausted"
        /\ pc = "select" => /\ JudgedFromLastSearch(evaluated_results)
                            /\ evaluated_results # <<>>
        /\ AfterSelect => final_results # <<>>

\* C3: when every attempt returns a non-empty batch whose rate is below the
\* threshold, the loop is left only after max_retries searches, max_retries
\* scorer calls and max_retries-1 refinements, and the batch of the last
\* attempt is the one the candidates are taken from.
C3_DegradedAcceptance ==
    [][ /\ C3_State'
        /\ (pc = "select" /\ exit_kind = "exhausted") =>
               /\ JudgedFromLastSearch(evaluated_results)
               /\ final_results' # <<>>
               /\ DrawnFrom(final_results', evaluated_results)
        /\ AfterSelect => final_results' = final_results ]_vars

C3_Witness ==
    /\ pc = "done"
    /\ exit_kind = "exhausted"
    /\ calls.search = max_retries
    /\ calls.scorer = max_retries
    /\ calls.refiner = max_retries - 1
    /\ \A k \in 1..Len(met_history) : ~met_history[k]
    /\ output # <<>>

\* C4 as stated: a returned output is non-empty whenever every judged batch
\* was below the threshold, at least one attempt returned results and no
\* content fetch failed.
C4_NonEmptyIfSomeAttemptReturned ==
    ( /\ pc = "done"
      /\ Len(met_history) >= 1
      /\ \A k \in 1..Len(met_history) : ~met_history[k]
      /\ \A i \in 1..Len(fetch_log) : fetch_log[i] # "none" )
    => output # <<>>

\* C4, amended: a returned output is non-empty whenever every judged batch
\* was below the threshold, every attempt made returned results and every
\* content fetch returned text that is not empty.
C4_NonEmptyIfEveryAttemptReturned ==
    ( /\ pc = "done"
      /\ Len(met_history) >= 1
      /\ \A k \in 1..Len(met_history) : ~met_history[k]
      /\ ~last_search_empty
      /\ \A i \in 1..Len(fetch_log) : fetch_log[i] = "text" )
    => output # <<>>

C4_Witness ==
    /\ pc = "done"
    /\ Len(met_history) = max_retries
    /\ \A k \in 1..Len(met_history) : ~met_history[k]
    /\ ~last_search_empty
    /\ \A i \in 1..Len(final_results) : ~final_results[i].is_relevant
    /\ Len(fetch_log) >= 1
    /\ \A i \in 1..Len(fetch_log) : fetch_log[i] = "text"
    /\ Len(output) = Len(fetch_log)

\* C5: once a search call has returned no result, the run has ended with the
\* empty output and no collaborator has been called after that search call.
C5_DeadSearchEndsRun ==
    last_search_empty =>
        /\ pc = "done"
        /\ output = <<>>
        /\ calls = calls_at_empty

C5_Witness ==
    /\ last_search_empty
    /\ pc = "done"
    /\ calls.search = 2
    /\ calls.scorer = 1
    /\ calls.refiner = 1

\* C6: the number of results asked of the search provider is twice the
\* target count on every attempt.
C6_RequestsTwiceTarget ==
    calls.search > 0 => serper_num = 2 * num_results

\* C7: the scorer and the refiner are only ever given the caller's original
\* query, also after a search that used a refined query.
C7_OriginalQueryToLLM ==
    /\ scorer_queries \subseteq {search_query}
    /\ refiner_queries \subseteq {search_query}

C7_Witness ==
    /\ calls.scorer >= 2
    /\ calls.refiner >= 2
    /\ last_searched # search_query
    /\ scorer_queries = {search_query}
    /\ refiner_queries = {search_query}

\* C8: evaluate_relevance returns one judged result per input result, in
\* order, and the result at position i carries a judgment whose index is i,
\* or the default judgment (not relevant, confidence 0.0) when there is none.
C8_PositionalJudgment ==
    ( /\ pc = "evaluated"
      /\ eval_input.status = "ok"
      /\ \A k \in 1..Len(eval_input.data) : IsDict(eval_input.data[k]) )
    =>
        /\ JudgedFromLastSearch(evaluated_results)
        /\ \A p \in 1..Len(evaluated_results) :
              LET J == {k \in 1..Len(eval_input.data) :
                           /\ Has(eval_input.data[k], "index")
                           /\ eval_input.data[k].index = p - 1}
              IN  IF J = {}
                  THEN /\ evaluated_results[p].is_relevant = FALSE
                       /\ evaluated_results[p].relevance_confidence = 0
                  ELSE \E k \in J :
                         /\ evaluated_results[p].is_relevant
                               = Get(eval_input.data[k], "is_relevant", FALSE)
                         /\ evaluated_results[p].relevance_confidence
                               = Get(eval_input.data[k], "confidence", 0)

\* the scorer call raised, its answer did not parse, or the matching loop hit
\* an element that is not an object
ScorerFailed ==
    \/ eval_input.status \in {"api_error", "unparsable"}
    \/ /\ eval_input.status = "ok"
       /\ Len(eval_input.data) > 0
       /\ ~IsDict(eval_input.data[1])

C9_State ==
    ScorerFailed =>
        /\ pc \in {"check", "select"}
        /\ JudgedFromLastSearch(evaluated_results)
        /\ evaluated_results # <<>>
        /\ \A p \in 1..Len(evaluated_results) :
              /\ evaluated_results[p].is_relevant = TRUE
              /\ evaluated_results[p].relevance_confidence = 5
        /\ pc = "select" => exit_kind = "sufficient"

\* C9: when the scorer call or the parsing of its answer fails, the judged
\* batch has the results of the search in their order, each marked relevant
\* with confidence 0.5, and the run goes on with that batch: it is accepted
\* and the candidates are its first num_results results.
C9_FailOpen ==
    [][ /\ C9_State'
        /\ ScorerFailed =>
              /\ pc' \in {"select", "process"}
              /\ pc' = "process" =>
                    final_results' = SubSeq(evaluated_results, 1,
                                            Min(num_results, Len(evaluated_results))) ]_vars

C9_Witness ==
    /\ ScorerFailed
    /\ pc = "select"
    /\ exit_kind = "sufficient"
    /\ Len(evaluated_results) > num_results
    /\ calls.search = 2

\* C10: the candidates of an accepted batch are its first num_results
\* judged-relevant results in the provider's order when it has a relevant
\* result, and its first num_results results otherwise; the confidence plays
\* no part in the order.
C10_SelectionInProviderOrder ==
    [][ /\ pc = "select" =>
              LET rel == RelevantPositions(evaluated_results)
                  pool == IF rel # {} THEN rel ELSE 1..Len(evaluated_results)
                  k == Min(num_results, Cardinality(pool))
              IN  /\ Len(final_results') = k
                  /\ \A j \in 1..k :
                        \E i \in pool :
                           /\ Cardinality({x \in pool : x <= i}) = j
                           /\ final_results'[j] = evaluated_results[i]
        /\ AfterSelect => final_results' = final_results ]_vars

C10_Witness ==
    /\ pc = "done"
    /\ Len(final_results) = 2
    /\ final_results[1].is_relevant
    /\ final_results[2].is_relevant
    /\ final_results[1].title # "Company 1"
    /\ final_results[1].relevance_confidence < final_results[2].relevance_confidence
    /\ Len(output) = 2

\* the judged results of a batch, the relevant ones first, each tier in the
\* order of the provider
RelevantFirst(batch) ==
    SelectSeq(batch, LAMBDA r : r.is_relevant) \o SelectSeq(batch, LAMBDA r : ~r.is_relevant)

\* C11 as stated: on degraded acceptance the final candidates are the first
\* num_results of all judged results of the last batch ordered relevant
\* first, the irrelevant results filling the set up to num_results.
C11_DegradedFillsWithIrrelevant ==
    [][ (pc = "select" /\ exit_kind = "exhausted") =>
            final_results' = Prefix(RelevantFirst(evaluated_results), num_results) ]_vars

\* C11 amended: on degraded acceptance the final candidates are a prefix of
\* the relevant-first ordering of the last batch that stops at the last
\* relevant result: min(num_results, number of relevant results) candidates
\* when some result is relevant, and min(num_results, batch size) candidates
\* when none is.
C11_DegradedTakesRelevantOnly ==
    [][ (pc = "select" /\ exit_kind = "exhausted") =>
            LET nrel == Cardinality(RelevantPositions(evaluated_results))
                k == IF nrel > 0 THEN Min(num_results, nrel)
                     ELSE Min(num_results, Len(evaluated_results))
            IN  final_results' = SubSeq(RelevantFirst(evaluated_results), 1, k) ]_vars

\* degraded acceptance of a batch with one relevant result when two were
\* asked for: one candidate
C11_Witness ==
    /\ pc = "done"
    /\ exit_kind = "exhausted"
    /\ num_results = 2
    /\ calls.search = max_retries
    /\ Len(final_results) = 1
    /\ final_results[1].is_relevant
    /\ final_results[1].title # "Company 1"
    /\ Len(output) = 1

\* the processing of the candidates is over, by a return or by an exception
ProcessingOver == (pc = "done" /\ final_results # <<>>) \/ pc = "raised"

\* positions of the candidates whose fetch returned text (not None)
FetchedPositions == {i \in 1..Len(fetch_log) : fetch_log[i] # "none"}

\* C12 as stated: once the processing of the selected candidates is over,
\* every candidate was fetched exactly once, and the output holds one record
\* per candidate whose fetch returned text (not None), none for a candidate
\* whose fetch failed, in the order of the candidates; so its length is the
\* number of candidates less the number of failed fetches.
C12_OneRecordPerFetchedCandidate ==
    ProcessingOver =>
        /\ Len(fetch_log) = Len(final_results)
        /\ calls.fetcher = Len(final_results)
        /\ Len(output) = Len(final_results)
                            - Cardinality({i \in 1..Len(fetch_log) : fetch_log[i] = "none"})
        /\ Len(output) <= num_results
        /\ \A j \in 1..Len(output) :
              \E i \in FetchedPositions :
                 /\ Cardinality({x \in FetchedPositions : x <= i}) = j
                 /\ output[j].search_title = final_results[i].title
                 /\ output[j].is_relevant = final_results[i].is_relevant

\* C13 as stated: whatever the collaborators answer (search error, scorer
\* failure, refiner failure, fetch failure, unparsable extraction answer,
\* search results that lack a title or a link), no exception leaves
\* generate_leads_dataframe, and a candidate whose extraction failed has its
\* fallback record among the collected leads while the loop goes on.
C13_NoExceptionReachesCaller ==
    /\ pc # "raised"
    /\ calls.extractor = Len(all_leads)

\* C14 as stated: every record of the output has every named lead field as a
\* key (the 15 extracted fields, the relevance fields and the provenance
\* fields), and no extracted field is null or missing from a row, whether
\* the record came from the structured extraction or from the regex fallback.
C14_EveryFieldPresent ==
    \A i \in 1..Len(output) :
       /\ \A f \in ColumnOrder : Has(output[i], f)
       /\ \A f \in ExtractedFields : output[i][f] \notin {"NaN", "null"}

\* C15 as stated: a second run with the same query, the same num_results and
\* collaborators that answer every call as in the first run returns the same
\* rows, in the same order, with the same content in every field.
C15_SameOutputOnRerun ==
    (pc = "done" /\ exit_kind # "empty") => output = DataFrameRows(twin_leads)

\* a step that calls search_companies
SearchStep == calls'.search = calls.search + 1

\* a step that calls refine_search_query
RefineStep == calls'.refiner = calls.refiner + 1

\* C16: the first search uses the original query; refine_search_query is
\* called exactly when a judged batch has its rate below the threshold and
\* retry_count < max_retries - 1; every later search uses exactly what the
\* last refiner call returned, that is the refiner LLM's text, or the
\* original query followed by " company contact information" when that call
\* failed; retry_count grows by one with each refinement and never otherwise.
C16_RefinementDrivesSearch ==
    [][ /\ SearchStep =>
              last_searched' =
                 IF calls.refiner = 0 THEN search_query
                 ELSE IF refiner_reply.status = "ok" THEN refiner_reply.text
                 ELSE search_query \o " company contact information"
        /\ RefineStep <=> ( /\ pc = "check"
                            /\ ~met_history[Len(met_history)]
                            /\ retry_count < max_retries - 1 )
        /\ calls'.refiner \in {calls.refiner, calls.refiner + 1}
        /\ retry_count' = retry_count + (calls'.refiner - calls.refiner)
        /\ retry_count' = calls'.refiner ]_vars

\* three searches, the last one after a refiner call that failed
C16_Witness ==
    /\ pc = "done"
    /\ calls.search = 3
    /\ calls.refiner = 2
    /\ retry_count = 2
    /\ refiner_reply.status = "api_error"
    /\ last_searched = "SaaS companies in Denver company contact information"
    /\ Len(output) >= 1

\* what the search API answered to query q carries q in its snippet
AnswersQuery(r, q) == Get(r, "snippet", "") = "result for " \o q

\* C17: the final candidates are judged results of the batch of the last
\* search + judge round trip, and so are the results behind the output
\* records: each of them answers the query of the last search call, whatever
\* earlier batches held.
C17_CandidatesFromLastBatch ==
    [][ /\ pc = "select" =>
              /\ JudgedFromLastSearch(evaluated_results)
              /\ DrawnFrom(final_results', evaluated_results)
              /\ \A i \in 1..Len(evaluated_results) :
                    AnswersQuery(evaluated_results[i], last_searched)
        /\ \A i \in 1..Len(final_results') :
              AnswersQuery(final_results'[i], last_searched')
        /\ \A i \in 1..Len(output') :
              output'[i].search_snippet = "result for " \o last_searched' ]_vars

\* a batch with a relevant result was refined away, the last batch has no
\* relevant result, and the output is made of results of the last batch
C17_Witness ==
    /\ pc = "done"
    /\ exit_kind = "exhausted"
    /\ earlier_relevant
    /\ last_searched # search_query
    /\ Len(final_results) = 2
    /\ \A i \in 1..Len(final_results) : ~final_results[i].is_relevant
    /\ Len(output) = 2
    /\ output[1].search_snippet = "result for " \o last_searched

====
